---- MODULE Spec2Model ----
(***************************************************************************)
(* Model of sgoedecke/bloom (src/main.go).                                 *)
(*                                                                         *)
(* The file holds two builds of the same program:                          *)
(*   "sparse" (lines 1-95)  : BloomFilter over a sparse bit array, the     *)
(*                            positions are murmur3.Sum64WithSeed(d, 1|2); *)
(*   "fixed"  (lines 97-203): BloomFilter over bits [99]bool, positions    *)
(*                            are the first two decimal digits of byte     *)
(*                            sums.                                        *)
(* Both define BloomFilter{getPositions,Set,Test} and                      *)
(* ArrayWithBloomFilter{Set,Test}.  Strings and byte slices are sequences  *)
(* of byte values 0..255; a uint64 is a sequence of 8 bytes, least         *)
(* significant first.  A Go run-time panic (slice bounds, index out of     *)
(* range) ends the program: status = "panic" and no operation is enabled.  *)
(***************************************************************************)
EXTENDS Integers, Sequences, FiniteSets, TLC

\* ------------------------------------------------------------------ bounds
\* Largest number of Set calls a run makes (bf.Set and arr.Set together).
MaxSets == 3

\* Longest byte slice handed to getPositions on its own (SpecPositions).
MaxLen == 3

\* ------------------------------------------------------------------ inputs
\* The strings / byte slices handed to the operations, as byte values.
Empty == << >>                          \* ""
StrBang == <<33>>                       \* "!"
StrTest  == <<116, 101, 115, 116>>      \* "test"   (src/main.go:82, 192)
StrTest2 == <<116, 101, 115, 116, 50>>  \* "test2"  (src/main.go:86, 201)
StrTset  == <<116, 115, 101, 116>>      \* "tset"
StrCd    == <<99, 100>>                 \* "cd"
StrDdda  == <<100, 100, 100, 97>>       \* "ddda"
StrNnlp  == <<110, 110, 108, 112>>      \* "nnlp"

Data == {Empty, StrBang, StrTest, StrTest2, StrTset, StrCd, StrDdda, StrNnlp}

\* The values the interleaved processes pass to Set and Test (SpecSteps): two
\* that share both positions in the fixed build, one that shares one of them,
\* one whose second position is out of range, one that has no positions.
StepData == {StrTest, StrTset, StrDdda}

Variants == {"sparse", "fixed"}

\* Byte values the slices handed to getPositions on its own are made of.
Bytes == {0, 33, 97, 99, 100, 255}

\* every []byte of at most MaxLen of these bytes
ByteSeqs == UNION {[1..n -> Bytes] : n \in 0..MaxLen}

\* ------------------------------------------------- 64-bit integer helpers
\* uint64 values are 8 bytes, least significant first; all arithmetic is
\* modulo 2^64, as Go's uint64 arithmetic is.
Pow2(n) == 2 ^ n

\* byte k (1..8) of a, 0 beyond the eighth
ByteAt(a, k) == IF k >= 1 /\ k <= 8 THEN a[k] ELSE 0

\* uint64(n) for a small non-negative n
U64(n) == <<n % 256, (n \div 256) % 256, (n \div 65536) % 256, 0, 0, 0, 0, 0>>

\* In the operators below "x \in {a}" names the value of a, so that it is
\* computed once.

RECURSIVE AddCarry(_, _, _, _)
AddCarry(a, b, k, carry) ==
    IF k > 8 THEN << >>
    ELSE CHOOSE r \in { <<t % 256>> \o AddCarry(a, b, k + 1, t \div 256) :
                        t \in {a[k] + b[k] + carry} } : TRUE

\* a + b
AddU64(a, b) == CHOOSE r \in { AddCarry(x, y, 1, 0) : x \in {a}, y \in {b} } : TRUE

RECURSIVE MulCol(_, _, _, _)
MulCol(a, b, k, i) ==
    IF i > k THEN 0 ELSE a[i] * b[k + 1 - i] + MulCol(a, b, k, i + 1)

RECURSIVE MulCarry(_, _, _, _)
MulCarry(a, b, k, carry) ==
    IF k > 8 THEN << >>
    ELSE CHOOSE r \in { <<t % 256>> \o MulCarry(a, b, k + 1, t \div 256) :
                        t \in {MulCol(a, b, k, 1) + carry} } : TRUE

\* a * b
MulU64(a, b) == CHOOSE r \in { MulCarry(x, y, 1, 0) : x \in {a}, y \in {b} } : TRUE

RECURSIVE XorBits(_, _, _)
XorBits(x, y, n) ==
    IF n = 0 THEN 0
    ELSE ((x + y) % 2) + 2 * XorBits(x \div 2, y \div 2, n - 1)

\* a ^ b
XorU64(a, b) ==
    CHOOSE r \in { <<XorBits(x[1], y[1], 8), XorBits(x[2], y[2], 8),
                     XorBits(x[3], y[3], 8), XorBits(x[4], y[4], 8),
                     XorBits(x[5], y[5], 8), XorBits(x[6], y[6], 8),
                     XorBits(x[7], y[7], 8), XorBits(x[8], y[8], 8)>> :
                   x \in {a}, y \in {b} } : TRUE

\* byte k of bits.RotateLeft64(a, r), 0 < r < 64
RotByte(a, r, k) ==
    LET q  == r \div 8
        s  == r % 8
        lo == a[((k - 1 - q + 8) % 8) + 1]
        hi == a[((k - 2 - q + 16) % 8) + 1]
    IN  ((lo * Pow2(s)) % 256) + (hi \div Pow2(8 - s))

RotL64(a, r) ==
    CHOOSE w \in { <<RotByte(x, r, 1), RotByte(x, r, 2), RotByte(x, r, 3),
                     RotByte(x, r, 4), RotByte(x, r, 5), RotByte(x, r, 6),
                     RotByte(x, r, 7), RotByte(x, r, 8)>> : x \in {a} } : TRUE

\* byte k of a >> r, 0 < r < 64
ShrByte(a, r, k) ==
    LET q == r \div 8
        s == r % 8
    IN  (ByteAt(a, k + q) \div Pow2(s)) + ((ByteAt(a, k + q + 1) * Pow2(8 - s)) % 256)

Shr64(a, r) ==
    CHOOSE w \in { <<ShrByte(x, r, 1), ShrByte(x, r, 2), ShrByte(x, r, 3),
                     ShrByte(x, r, 4), ShrByte(x, r, 5), ShrByte(x, r, 6),
                     ShrByte(x, r, 7), ShrByte(x, r, 8)>> : x \in {a} } : TRUE

\* little-endian load of the bytes bs[from..to] (at most 8; missing bytes 0)
LoadByte(bs, from, to, k) == IF from + k - 1 <= to THEN bs[from + k - 1] ELSE 0

LoadLE(bs, from, to) ==
    <<LoadByte(bs, from, to, 1), LoadByte(bs, from, to, 2),
      LoadByte(bs, from, to, 3), LoadByte(bs, from, to, 4),
      LoadByte(bs, from, to, 5), LoadByte(bs, from, to, 6),
      LoadByte(bs, from, to, 7), LoadByte(bs, from, to, 8)>>

\* ------------------------------------------------ murmur3.Sum64WithSeed
\* MurmurHash3 x64-128, first 64 bits, as github.com/spaolacci/murmur3
\* computes it (called at src/main.go:22-23).
C1_128 == <<213, 83, 66, 17, 145, 123, 195, 135>>   \* 0x87c37b91114253d5
C2_128 == <<127, 147, 69, 39, 67, 173, 245, 76>>    \* 0x4cf5ad432745937f
FMix1  == <<205, 140, 85, 237, 215, 175, 81, 255>>  \* 0xff51afd7ed558ccd
FMix2  == <<83, 236, 133, 26, 254, 185, 206, 196>>  \* 0xc4ceb9fe1a85ec53
N1_128 == <<41, 231, 220, 82, 0, 0, 0, 0>>          \* 0x52dce729
N2_128 == <<181, 90, 73, 56, 0, 0, 0, 0>>           \* 0x38495ab5

\* k ^= k >> 33
XorShr33(k) == CHOOSE r \in { XorU64(x, Shr64(x, 33)) : x \in {k} } : TRUE

fmix64(k) == XorShr33(MulU64(XorShr33(MulU64(XorShr33(k), FMix1)), FMix2))

MixK1(k) == MulU64(RotL64(MulU64(k, C1_128), 31), C2_128)
MixK2(k) == MulU64(RotL64(MulU64(k, C2_128), 33), C1_128)

\* one 16-byte block of digest128.bmix, h = <<h1, h2>>
BlockH1(h, k1) ==
    AddU64(MulU64(AddU64(RotL64(XorU64(h[1], MixK1(k1)), 27), h[2]), U64(5)), N1_128)
BlockH2(h, h1b, k2) ==
    AddU64(MulU64(AddU64(RotL64(XorU64(h[2], MixK2(k2)), 31), h1b), U64(5)), N2_128)

\* digest128.bmix: the 16-byte blocks from the blk-th on
RECURSIVE bmix(_, _, _)
bmix(data, blk, h) ==
    IF 16 * blk > Len(data) THEN h
    ELSE LET base == 16 * (blk - 1)
         IN  CHOOSE r \in
               { bmix(data, blk + 1, h2) :
                   h2 \in { <<h1b, BlockH2(h, h1b, LoadLE(data, base + 9, base + 16))>> :
                              h1b \in {BlockH1(h, LoadLE(data, base + 1, base + 8))} } } : TRUE

\* the tail (fewer than 16 bytes after the blocks) mixed into h
TailH(data, h) ==
    LET n    == Len(data)
        tl   == 16 * (n \div 16)          \* bytes consumed by bmix
        tlen == n - tl
    IN  << IF tlen > 0
           THEN XorU64(h[1], MixK1(LoadLE(data, tl + 1, IF tlen > 8 THEN tl + 8 ELSE n)))
           ELSE h[1],
           IF tlen > 8
           THEN XorU64(h[2], MixK2(LoadLE(data, tl + 9, n)))
           ELSE h[2] >>

\* digest128.Sum128: finalisation of h for n bytes, first word
Final1(h, n) ==
    CHOOSE r \in
      { AddU64(fmix64(h1s), fmix64(h2s)) :
          <<h1s, h2s>> \in { <<s1, AddU64(h2x, s1)>> :
              <<s1, h2x>> \in { <<AddU64(XorU64(h[1], U64(n)), x2), x2>> :
                  x2 \in {XorU64(h[2], U64(n))} } } } : TRUE

Sum64WithSeed(data, seed) ==
    CHOOSE r \in
      { Final1(h, Len(data)) :
          h \in { TailH(data, h0) :
                    h0 \in {bmix(data, 1, <<U64(seed), U64(seed)>>)} } } : TRUE

\* -------------------------------------------------- strconv (fixed build)
\* strconv.Itoa of a non-negative int: its decimal digits.
RECURSIVE Itoa(_)
Itoa(n) == IF n < 10 THEN <<n>> ELSE Append(Itoa(n \div 10), n % 10)

\* strconv.Atoi of a digit string.
RECURSIVE Atoi(_)
Atoi(s) == IF Len(s) = 0 THEN 0
           ELSE 10 * Atoi(SubSeq(s, 1, Len(s) - 1)) + s[Len(s)]

\* sum over the bytes of b >> sh
RECURSIVE ShiftSum(_, _)
ShiftSum(data, sh) ==
    IF Len(data) = 0 THEN 0
    ELSE (Head(data) \div Pow2(sh)) + ShiftSum(Tail(data), sh)

\* strconv.Atoi(strconv.Itoa(p)[:2]); the slice expression s[:2] panics
\* when len(s) < 2.
FirstTwoPanics(p) == Len(Itoa(p)) < 2
FirstTwo(p) == Atoi(SubSeq(Itoa(p), 1, 2))


\* ------------------------------------------------------------ BloomFilter
\* Length of bits [99]bool in the fixed build.
BitsLen == 99

\* A bit store (the sparse bit array, or bits [99]bool) is the set of the
\* positions whose bit is true; the array's indices are 0..BitsLen-1.

\* NewBloomFilter() (sparse) / BloomFilter{} (fixed): every bit unset.
NewBloomFilter == [bits |-> {}]

\* A call's outcome carries panic = TRUE when the Go run time panicked in it.

\* The two murmur3 sums (seeds 1 and 2) of the inputs in S, as a table.
RECURSIVE Sum64Table(_)
Sum64Table(S) ==
    IF S = {} THEN << >>
    ELSE LET d == CHOOSE x \in S : TRUE
         IN  (d :> <<Sum64WithSeed(d, 1), Sum64WithSeed(d, 2)>>) @@ Sum64Table(S \ {d})

\* The sums of every input, computed once.
Sum64Pair == Sum64Table(Data)

\* getPositions of the sparse build: p1, p2 are the sums with seeds 1 and 2.
getPositionsSparse(f, data) == [panic |-> FALSE, pos |-> Sum64Pair[data]]

\* getPositions of the fixed build: first two decimal digits of the sums of
\* b>>1 and of b>>2.
getPositionsFixed(f, data) ==
    LET p1 == ShiftSum(data, 1)
        p2 == ShiftSum(data, 2)
    IN  IF FirstTwoPanics(p1) \/ FirstTwoPanics(p2)
        THEN [panic |-> TRUE, pos |-> << >>]
        ELSE [panic |-> FALSE, pos |-> <<FirstTwo(p1), FirstTwo(p2)>>]

\* Mutant of getPositions: the positions depend on the filter's bits (they
\* are swapped once a bit is set).
SwapIfSet(f, gp) ==
    IF gp.panic \/ f.bits = NewBloomFilter.bits THEN gp
    ELSE [gp EXCEPT !.pos = <<gp.pos[2], gp.pos[1]>>]

getPositionsStateful(v, f, data) ==
    SwapIfSet(f, IF v = "sparse" THEN getPositionsSparse(f, data)
                 ELSE getPositionsFixed(f, data))

getPositions(v, f, data) ==
    IF v = "sparse" THEN getPositionsSparse(f, data) ELSE getPositionsFixed(f, data)

\* Is pos a valid index of the bit store?  The sparse bit array takes every
\* uint64; the array takes 0..98.
InRange(v, pos) == v = "sparse" \/ (pos >= 0 /\ pos < BitsLen)

\* Mutant of SetBit: the store is rebuilt around the new bit, dropping the
\* bits set before.
SetBitClearing(bits, pos) == {pos}

\* f.bits.SetBit(pos) / f.bits[pos] = true
SetBit(bits, pos) == bits \cup {pos}

\* f.bits.GetBit(pos) / f.bits[pos]
GetBit(bits, pos) == pos \in bits

\* the loop of BloomFilter.Set from its i-th position on
RECURSIVE SetLoop(_, _, _, _)
SetLoop(v, bits, ps, i) ==
    IF i > Len(ps) THEN [panic |-> FALSE, bits |-> bits]
    ELSE IF ~InRange(v, ps[i]) THEN [panic |-> TRUE, bits |-> bits]
    ELSE SetLoop(v, SetBit(bits, ps[i]), ps, i + 1)

\* BloomFilter.Set once getPositions returned gp
SetAt(v, f, gp) ==
    IF gp.panic THEN [panic |-> TRUE, f |-> f, pos |-> gp.pos]
    ELSE LET r == SetLoop(v, f.bits, gp.pos, 1)
         IN  [panic |-> r.panic, f |-> [f EXCEPT !.bits = r.bits], pos |-> gp.pos]

\* BloomFilter.Set(data): f is the filter afterwards, pos the positions the
\* call computed.
Set(v, f, data) == SetAt(v, f, getPositions(v, f, data))

\* the loop of BloomFilter.Test from its i-th position on
RECURSIVE TestLoop(_, _, _, _)
TestLoop(v, bits, ps, i) ==
    IF i > Len(ps) THEN [panic |-> FALSE, result |-> TRUE]
    ELSE IF ~InRange(v, ps[i]) THEN [panic |-> TRUE, result |-> FALSE]
    ELSE IF ~GetBit(bits, ps[i]) THEN [panic |-> FALSE, result |-> FALSE]
    ELSE TestLoop(v, bits, ps, i + 1)

\* BloomFilter.Test once getPositions returned gp
TestAt(v, f, gp) ==
    IF gp.panic THEN [panic |-> TRUE, result |-> FALSE, f |-> f, pos |-> gp.pos]
    ELSE LET r == TestLoop(v, f.bits, gp.pos, 1)
         IN  [panic |-> r.panic, result |-> r.result, f |-> f, pos |-> gp.pos]

\* Mutant of Test: the query sets the bits it looks at.
TestMarkingAt(v, f, gp) ==
    IF gp.panic THEN [panic |-> TRUE, result |-> FALSE, f |-> f, pos |-> gp.pos]
    ELSE LET r == TestLoop(v, f.bits, gp.pos, 1)
             w == SetLoop(v, f.bits, gp.pos, 1)
         IN  [panic |-> r.panic, result |-> r.result,
              f |-> [f EXCEPT !.bits = w.bits], pos |-> gp.pos]

TestMarking(v, f, data) == TestMarkingAt(v, f, getPositions(v, f, data))

\* BloomFilter.Test(data): result is the returned bool, f the filter
\* afterwards (the method has a pointer receiver), pos the positions the call
\* computed.
Test(v, f, data) == TestAt(v, f, getPositions(v, f, data))

\* --------------------------------------------------- ArrayWithBloomFilter
NewArrayWithBloomFilter == [array |-> << >>, filter |-> NewBloomFilter]

\* ArrayWithBloomFilter.Set once a.filter.Set returned r
ArraySetAt(a, value, r) ==
    IF r.panic
    THEN [panic |-> TRUE, a |-> [a EXCEPT !.filter = r.f], pos |-> r.pos]
    ELSE [panic |-> FALSE,
          a |-> [array |-> Append(a.array, value), filter |-> r.f],
          pos |-> r.pos]

\* ArrayWithBloomFilter.Set(value): a is the collection afterwards
ArraySet(v, a, value) == ArraySetAt(a, value, Set(v, a.filter, value))

\* the scan "for _, el := range a.array": reads = elements compared
RECURSIVE Scan(_, _, _)
Scan(array, value, i) ==
    IF i > Len(array) THEN [result |-> FALSE, reads |-> Len(array)]
    ELSE IF array[i] = value THEN [result |-> TRUE, reads |-> i]
    ELSE Scan(array, value, i + 1)

\* ArrayWithBloomFilter.Test once a.filter.Test returned r
ArrayTestAt(a, value, r) ==
    IF r.panic
    THEN [panic |-> TRUE, result |-> FALSE, a |-> [a EXCEPT !.filter = r.f],
          hasElement |-> "none", reads |-> 0, pos |-> r.pos]
    ELSE IF ~r.result
    THEN [panic |-> FALSE, result |-> FALSE, a |-> [a EXCEPT !.filter = r.f],
          hasElement |-> "false", reads |-> 0, pos |-> r.pos]
    ELSE LET sc == Scan(a.array, value, 1)
         IN  [panic |-> FALSE, result |-> sc.result,
              a |-> [a EXCEPT !.filter = r.f],
              hasElement |-> "true", reads |-> sc.reads, pos |-> r.pos]

\* Mutant of ArrayTest: the array is scanned before the filter is asked.
ArrayTestScanFirstAt(a, value, r) ==
    LET sc == Scan(a.array, value, 1)
    IN  IF r.panic
        THEN [panic |-> TRUE, result |-> FALSE, a |-> [a EXCEPT !.filter = r.f],
              hasElement |-> "none", reads |-> sc.reads, pos |-> r.pos]
        ELSE [panic |-> FALSE, result |-> r.result /\ sc.result,
              a |-> [a EXCEPT !.filter = r.f],
              hasElement |-> IF r.result THEN "true" ELSE "false",
              reads |-> sc.reads, pos |-> r.pos]

ArrayTestScanFirst(v, a, value) ==
    ArrayTestScanFirstAt(a, value, Test(v, a.filter, value))

\* ArrayWithBloomFilter.Test(value): result is the returned bool, a the
\* collection afterwards, hasElement the filter's answer ("none" when the
\* filter call panicked), reads the number of elements of a.array the call
\* read.
ArrayTest(v, a, value) == ArrayTestAt(a, value, Test(v, a.filter, value))

\* ------------------------------------------------------------------ state
\* variant  : which build runs, "sparse" or "fixed"
\* status   : "ok", or "panic" once a call panicked (the program is over)
\* bf       : a stand-alone BloomFilter (main, src/main.go:80)
\* arr      : an ArrayWithBloomFilter (main, src/main.go:88, 191)
\* recorded : history, the arguments of the bf.Set calls, in order
\* inserted : history, the arguments of the arr.Set calls, in order
\* last     : the most recent call and its outcome
\* pair     : the two builds run side by side on the same calls (SpecPair)
\* procs    : the call each process is in and its position in it (SpecSteps)
VARIABLES variant, status, bf, arr, recorded, inserted, last, pair, procs

vars == <<variant, status, bf, arr, recorded, inserted, last, pair, procs>>

NoCall == [op |-> "none", arg |-> << >>, result |-> "none",
           hasElement |-> "none", reads |-> 0, pos |-> << >>]

\* the side-by-side run before its first call: a new collection of each build
NoPair == [sparse |-> NewArrayWithBloomFilter, fixed |-> NewArrayWithBloomFilter,
           op |-> "none", arg |-> << >>, outS |-> "none", outF |-> "none"]

\* Number of processes calling into one collection (SpecSteps).
NumProcs == 3

Procs == 1..NumProcs

\* a process that has not made its call yet
Idle == [pc |-> "idle", op |-> "none", arg |-> << >>, pos |-> << >>,
         local |-> << >>, after |-> FALSE]

\* a process whose call has returned
Done == [Idle EXCEPT !.pc = "done"]

NoProcs == [p \in Procs |-> Idle]

\* a call's result as the caller sees it
Outcome(r) == IF r.panic THEN "panic" ELSE IF r.result THEN "true" ELSE "false"

Init ==
    /\ variant \in Variants
    /\ status = "ok"
    /\ bf = NewBloomFilter
    /\ arr = NewArrayWithBloomFilter
    /\ recorded = << >>
    /\ inserted = << >>
    /\ last = NoCall
    /\ pair = NoPair
    /\ procs = NoProcs

\* bf.Set(d)
CallBFSet(d) ==
    /\ status = "ok"
    /\ Len(recorded) + Len(inserted) < MaxSets
    /\ \E r \in {Set(variant, bf, d)} :
           /\ bf' = r.f
           /\ status' = IF r.panic THEN "panic" ELSE "ok"
           /\ last' = [op |-> "BloomFilter.Set", arg |-> d,
                       result |-> IF r.panic THEN "panic" ELSE "self",
                       hasElement |-> "none", reads |-> 0, pos |-> r.pos]
    /\ recorded' = Append(recorded, d)
    /\ UNCHANGED <<variant, arr, inserted, pair, procs>>

\* bf.Test(d)
CallBFTest(d) ==
    /\ status = "ok"
    /\ \E r \in {Test(variant, bf, d)} :
           /\ bf' = r.f
           /\ status' = IF r.panic THEN "panic" ELSE "ok"
           /\ last' = [op |-> "BloomFilter.Test", arg |-> d,
                       result |-> Outcome(r),
                       hasElement |-> "none", reads |-> 0, pos |-> r.pos]
    /\ UNCHANGED <<variant, arr, recorded, inserted, pair, procs>>

\* arr.Set(s)
CallArraySet(s) ==
    /\ status = "ok"
    /\ Len(recorded) + Len(inserted) < MaxSets
    /\ \E r \in {ArraySet(variant, arr, s)} :
           /\ arr' = r.a
           /\ status' = IF r.panic THEN "panic" ELSE "ok"
           /\ last' = [op |-> "ArrayWithBloomFilter.Set", arg |-> s,
                       result |-> IF r.panic THEN "panic" ELSE "done",
                       hasElement |-> "none", reads |-> 0, pos |-> r.pos]
    /\ inserted' = Append(inserted, s)
    /\ UNCHANGED <<variant, bf, recorded, pair, procs>>

\* arr.Test(s)
CallArrayTest(s) ==
    /\ status = "ok"
    /\ \E r \in {ArrayTest(variant, arr, s)} :
           /\ arr' = r.a
           /\ status' = IF r.panic THEN "panic" ELSE "ok"
           /\ last' = [op |-> "ArrayWithBloomFilter.Test", arg |-> s,
                       result |-> Outcome(r),
                       hasElement |-> r.hasElement, reads |-> r.reads,
                       pos |-> r.pos]
    /\ UNCHANGED <<variant, bf, recorded, inserted, pair, procs>>

Next ==
    \/ \E d \in Data : CallBFSet(d)
    \/ \E d \in Data : CallBFTest(d)
    \/ \E s \in Data : CallArraySet(s)
    \/ \E s \in Data : CallArrayTest(s)

Spec == Init /\ [][Next]_vars

\* --------------------------------- getPositions of the fixed build alone
\* A caller hands byte slices to getPositions of a new filter of the fixed
\* build; last holds the call and what it returned.
InitPositions ==
    /\ variant = "fixed"
    /\ status = "ok"
    /\ bf = NewBloomFilter
    /\ arr = NewArrayWithBloomFilter
    /\ recorded = << >>
    /\ inserted = << >>
    /\ last = NoCall
    /\ pair = NoPair
    /\ procs = NoProcs

CallGetPositions(d) ==
    /\ status = "ok"
    /\ \E gp \in {getPositionsFixed(bf, d)} :
           /\ last' = [op |-> "getPositions", arg |-> d,
                       result |-> IF gp.panic THEN "panic" ELSE "returned",
                       hasElement |-> "none", reads |-> 0, pos |-> gp.pos]
           /\ status' = IF gp.panic THEN "panic" ELSE "ok"
    /\ UNCHANGED <<variant, bf, arr, recorded, inserted, pair, procs>>

NextPositions == \E d \in ByteSeqs : CallGetPositions(d)

SpecPositions == InitPositions /\ [][NextPositions]_vars

\* ------------------------------------------- the two builds side by side
\* One caller drives a collection of the sparse build and a collection of
\* the fixed build with the same calls; status is "panic" once either build
\* panicked, which ends the run.
InitPair ==
    /\ variant = "sparse"
    /\ status = "ok"
    /\ bf = NewBloomFilter
    /\ arr = NewArrayWithBloomFilter
    /\ recorded = << >>
    /\ inserted = << >>
    /\ last = NoCall
    /\ pair = NoPair
    /\ procs = NoProcs

\* Set(s) on both collections
PairSet(s) ==
    /\ status = "ok"
    /\ Len(pair.sparse.array) < MaxSets
    /\ \E rs \in {ArraySet("sparse", pair.sparse, s)},
          rf \in {ArraySet("fixed", pair.fixed, s)} :
           /\ pair' = [sparse |-> rs.a, fixed |-> rf.a,
                       op |-> "ArrayWithBloomFilter.Set", arg |-> s,
                       outS |-> IF rs.panic THEN "panic" ELSE "done",
                       outF |-> IF rf.panic THEN "panic" ELSE "done"]
           /\ status' = IF rs.panic \/ rf.panic THEN "panic" ELSE "ok"
    /\ UNCHANGED <<variant, bf, arr, recorded, inserted, last, procs>>

\* Test(s) on both collections
PairTest(s) ==
    /\ status = "ok"
    /\ \E rs \in {ArrayTest("sparse", pair.sparse, s)},
          rf \in {ArrayTest("fixed", pair.fixed, s)} :
           /\ pair' = [sparse |-> rs.a, fixed |-> rf.a,
                       op |-> "ArrayWithBloomFilter.Test", arg |-> s,
                       outS |-> Outcome(rs), outF |-> Outcome(rf)]
           /\ status' = IF rs.panic \/ rf.panic THEN "panic" ELSE "ok"
    /\ UNCHANGED <<variant, bf, arr, recorded, inserted, last, procs>>

NextPair ==
    \/ \E s \in Data : PairSet(s)
    \/ \E s \in Data : PairTest(s)

SpecPair == InitPair /\ [][NextPair]_vars

\* ------------------------------------- processes sharing one collection
\* NumProcs processes each make one call of Set or Test on one
\* ArrayWithBloomFilter, with no synchronisation (the code has none); they are
\* numbered in the order they make their calls.  A Set is its separate steps:
\* the two iterations of the loop in BloomFilter.Set, each setting one bit (the
\* store to one bool of the fixed build, the SetBit call of the sparse build
\* taken as one step), then the read of a.array and the store of the appended
\* slice in "a.array = append(a.array, value)", which are two accesses of the
\* shared field.  A Test is the two iterations of the loop in BloomFilter.Test
\* and the scan.  A panic in any process ends the program.  inserted lists the
\* values of the Set calls that returned, last is the call that returned last.

\* the steps of ArrayWithBloomFilter.Set in program order
SetSteps == <<"bit1", "bit2", "read", "write">>

\* the step after pc in ArrayWithBloomFilter.Set, "idle" after the last one
AfterStep(pc) ==
    LET i == CHOOSE j \in 1..Len(SetSteps) : SetSteps[j] = pc
    IN  IF i = Len(SetSteps) THEN "idle" ELSE SetSteps[i + 1]

InitSteps ==
    /\ variant \in Variants
    /\ status = "ok"
    /\ bf = NewBloomFilter
    /\ arr = NewArrayWithBloomFilter
    /\ recorded = << >>
    /\ inserted = << >>
    /\ last = NoCall
    /\ pair = NoPair
    /\ procs = NoProcs

\* process p moves from step pc of its Set to the next one; leaving the last
\* step the call returns
SetAdvance(p, pc, pos, local) ==
    IF AfterStep(pc) = "idle"
    THEN /\ procs' = [procs EXCEPT ![p] = Done]
         /\ inserted' = Append(inserted, procs[p].arg)
         /\ last' = [op |-> "ArrayWithBloomFilter.Set", arg |-> procs[p].arg,
                     result |-> "done", hasElement |-> "none", reads |-> 0,
                     pos |-> pos, after |-> FALSE]
    ELSE /\ procs' = [procs EXCEPT ![p] = [@ EXCEPT !.pc = AfterStep(pc),
                                                    !.pos = pos,
                                                    !.local = local]]
         /\ UNCHANGED <<inserted, last>>

\* process p panics: the program ends
Panics(p) ==
    /\ status' = "panic"
    /\ procs' = [procs EXCEPT ![p] = [@ EXCEPT !.pc = "panic"]]

\* process p is the next one to make its call
CanStart(p) ==
    /\ procs[p].pc = "idle"
    /\ \A q \in Procs : q < p => procs[q].pc # "idle"

\* process p calls a.Set(s)
StartSet(p, s) ==
    /\ status = "ok"
    /\ CanStart(p)
    /\ procs' = [procs EXCEPT ![p] = [pc |-> SetSteps[1], op |-> "Set", arg |-> s,
                                      pos |-> << >>, local |-> << >>,
                                      after |-> FALSE]]
    /\ UNCHANGED <<variant, status, bf, arr, recorded, inserted, last, pair>>

\* a.filter.Set: getPositions and the first iteration of the loop
SetFirstBit(p) ==
    /\ status = "ok"
    /\ procs[p].pc = "bit1"
    /\ \E gp \in {getPositions(variant, arr.filter, procs[p].arg)} :
          IF gp.panic \/ ~InRange(variant, gp.pos[1])
          THEN /\ Panics(p)
               /\ UNCHANGED <<arr, inserted, last>>
          ELSE /\ arr' = [arr EXCEPT !.filter.bits = SetBit(@, gp.pos[1])]
               /\ SetAdvance(p, "bit1", gp.pos, procs[p].local)
               /\ UNCHANGED status
    /\ UNCHANGED <<variant, bf, recorded, pair>>

\* a.filter.Set: the second iteration of the loop
SetSecondBit(p) ==
    /\ status = "ok"
    /\ procs[p].pc = "bit2"
    /\ IF ~InRange(variant, procs[p].pos[2])
       THEN /\ Panics(p)
            /\ UNCHANGED <<arr, inserted, last>>
       ELSE /\ arr' = [arr EXCEPT !.filter.bits = SetBit(@, procs[p].pos[2])]
            /\ SetAdvance(p, "bit2", procs[p].pos, procs[p].local)
            /\ UNCHANGED status
    /\ UNCHANGED <<variant, bf, recorded, pair>>

\* a.array = append(a.array, value): a.array is read
AppendRead(p) ==
    /\ status = "ok"
    /\ procs[p].pc = "read"
    /\ SetAdvance(p, "read", procs[p].pos, arr.array)
    /\ UNCHANGED <<variant, status, bf, arr, recorded, pair>>

\* a.array = append(a.array, value): the appended slice is stored
AppendWrite(p) ==
    /\ status = "ok"
    /\ procs[p].pc = "write"
    /\ arr' = [arr EXCEPT !.array = Append(procs[p].local, procs[p].arg)]
    /\ SetAdvance(p, "write", procs[p].pos, procs[p].local)
    /\ UNCHANGED <<variant, status, bf, recorded, pair>>

\* process p's Test returns result
TestReturns(p, result, hasElement, reads, pos) ==
    /\ procs' = [procs EXCEPT ![p] = Done]
    /\ last' = [op |-> "ArrayWithBloomFilter.Test", arg |-> procs[p].arg,
                result |-> result, hasElement |-> hasElement, reads |-> reads,
                pos |-> pos, after |-> procs[p].after]

\* process p calls a.Test(s); after: a Set(s) has returned before
StartTest(p, s) ==
    /\ status = "ok"
    /\ CanStart(p)
    /\ procs' = [procs EXCEPT ![p] = [pc |-> "tbit1", op |-> "Test", arg |-> s,
                                      pos |-> << >>, local |-> << >>,
                                      after |-> s \in {inserted[i] : i \in 1..Len(inserted)}]]
    /\ UNCHANGED <<variant, status, bf, arr, recorded, inserted, last, pair>>

\* a.filter.Test: getPositions and the first iteration of the loop
TestFirstBit(p) ==
    /\ status = "ok"
    /\ procs[p].pc = "tbit1"
    /\ \E gp \in {getPositions(variant, arr.filter, procs[p].arg)} :
          IF gp.panic \/ ~InRange(variant, gp.pos[1])
          THEN /\ Panics(p)
               /\ UNCHANGED last
          ELSE /\ IF GetBit(arr.filter.bits, gp.pos[1])
                  THEN /\ procs' = [procs EXCEPT ![p] = [@ EXCEPT !.pc = "tbit2",
                                                                  !.pos = gp.pos]]
                       /\ UNCHANGED last
                  ELSE TestReturns(p, "false", "false", 0, gp.pos)
               /\ UNCHANGED status
    /\ UNCHANGED <<variant, bf, arr, recorded, inserted, pair>>

\* a.filter.Test: the second iteration of the loop
TestSecondBit(p) ==
    /\ status = "ok"
    /\ procs[p].pc = "tbit2"
    /\ IF ~InRange(variant, procs[p].pos[2])
       THEN /\ Panics(p)
            /\ UNCHANGED last
       ELSE /\ IF GetBit(arr.filter.bits, procs[p].pos[2])
               THEN /\ procs' = [procs EXCEPT ![p] = [@ EXCEPT !.pc = "scan"]]
                    /\ UNCHANGED last
               ELSE TestReturns(p, "false", "false", 0, procs[p].pos)
            /\ UNCHANGED status
    /\ UNCHANGED <<variant, bf, arr, recorded, inserted, pair>>

\* the scan of a.array
TestScan(p) ==
    /\ status = "ok"
    /\ procs[p].pc = "scan"
    /\ \E sc \in {Scan(arr.array, procs[p].arg, 1)} :
          TestReturns(p, IF sc.result THEN "true" ELSE "false", "true",
                      sc.reads, procs[p].pos)
    /\ UNCHANGED <<variant, status, bf, arr, recorded, inserted, pair>>

NextSteps ==
    \E p \in Procs :
        \/ \E s \in StepData : StartSet(p, s)
        \/ SetFirstBit(p)
        \/ SetSecondBit(p)
        \/ AppendRead(p)
        \/ AppendWrite(p)
        \/ \E s \in StepData : StartTest(p, s)
        \/ TestFirstBit(p)
        \/ TestSecondBit(p)
        \/ TestScan(p)

SpecSteps == InitSteps /\ [][NextSteps]_vars

\* ---------------------------------------------------------------- helpers
\* does a Test call on f with data return true (without panicking)?
ReturnsTrue(v, f, data) == \E r \in {Test(v, f, data)} : ~r.panic /\ r.result

\* the elements of a sequence
Range(q) == {q[i] : i \in 1..Len(q)}

TestOps == {"BloomFilter.Test", "ArrayWithBloomFilter.Test"}

\* ----------------------------------------------------------------- claims

\* C1 (no false negatives in the filter): in every state, every byte
\* sequence d that bf.Set has been called with makes bf.Test(d) return true,
\* whatever other Set calls were made, in both builds.
NoFalseNegatives ==
    \A i \in 1..Len(recorded) : ReturnsTrue(variant, bf, recorded[i])

\* C2 (exactness of the collection): a call arr.Test(s) returns true if s
\* was passed to arr.Set before, and returns false otherwise.
Exactness ==
    last.op = "ArrayWithBloomFilter.Test" =>
        last.result = (IF last.arg \in Range(inserted) THEN "true" ELSE "false")

\* C3 (superset invariant): in every state, every string s that arr.Set has
\* been called with makes arr.filter.Test(s) return true.
SupersetInvariant ==
    \A i \in 1..Len(inserted) : ReturnsTrue(variant, arr.filter, inserted[i])

\* C4 (monotonicity of the bit store): no step of any operation turns a true
\* bit false, in the stand-alone filter or in the collection's filter: the
\* true positions before a step are true after it.
Monotonicity ==
    [][/\ bf.bits \subseteq bf'.bits
       /\ arr.filter.bits \subseteq arr'.filter.bits]_vars

\* C4 witness: two different inputs have been recorded one after the other
\* and their bits are all there.
MonotonicityWitness ==
    /\ status = "ok"
    /\ Len(recorded) = 2
    /\ recorded[1] # recorded[2]
    /\ Cardinality(bf.bits) >= 3

\* C5 (totality): no call panics, whatever its input: the program never
\* reaches the panicked state.
Totality == status = "ok"

\* C6 (filter first, short circuit): in a call arr.Test(value), when the
\* filter answers false the call returns false and reads no element of
\* a.array; elements are read only when the filter answered true.
FilterFirst ==
    last.op = "ArrayWithBloomFilter.Test" =>
        /\ last.hasElement = "false" => (last.result = "false" /\ last.reads = 0)
        /\ last.reads > 0 => last.hasElement = "true"

\* C6 witness: the filter ruled a value out while the array held elements
\* the scan could have read.
FilterFirstWitness ==
    /\ last.op = "ArrayWithBloomFilter.Test"
    /\ last.hasElement = "false"
    /\ last.result = "false"
    /\ Len(arr.array) > 0

\* C7 (queries are pure): a step that is a call of BloomFilter.Test or of
\* ArrayWithBloomFilter.Test leaves both bit stores and the array as they
\* were, whatever the argument and the result.
QueriesPure ==
    [][last'.op \in TestOps => (bf' = bf /\ arr' = arr)]_vars

\* C7 witness: a query has run on a filled collection and answered true.
QueriesPureWitness ==
    /\ last.op = "ArrayWithBloomFilter.Test"
    /\ last.result = "true"
    /\ Len(arr.array) = 2

\* C8 (the array is the insertion history): after arr.Set has been called
\* with v1..vn, a.array is <<v1, ..., vn>>: every call appended its value.
ArrayIsHistory == arr.array = inserted

\* C9 (a fresh filter rejects everything): Test on a filter no Set was
\* called on, and on a collection no Set was called on, returns false for
\* every input.
FreshRejects ==
    /\ (last.op = "BloomFilter.Test" /\ recorded = << >>) => last.result = "false"
    /\ (last.op = "ArrayWithBloomFilter.Test" /\ inserted = << >>)
           => last.result = "false"

BuildsEquivalent ==
    /\ pair.outS = pair.outF
    /\ pair.sparse.array = pair.fixed.array

\* both of the positions of data are computed and set in f
AllPositionsSet(v, f, data) ==
    \E gp \in {getPositions(v, f, data)} :
        /\ ~gp.panic
        /\ Len(gp.pos) = 2
        /\ \A i \in 1..Len(gp.pos) : InRange(v, gp.pos[i]) /\ GetBit(f.bits, gp.pos[i])

\* C12 (Test is the conjunction of the two bits): every BloomFilter.Test(data)
\* returns true if both positions of getPositions(data) are set in the bit
\* store, and returns false otherwise.
TestIffAllSet ==
    last.op = "BloomFilter.Test" =>
        last.result = (IF AllPositionsSet(variant, bf, last.arg) THEN "true" ELSE "false")

\* the first two decimal digits of p (p itself below 100)
RECURSIVE LeadingDigits(_)
LeadingDigits(p) == IF p < 100 THEN p ELSE LeadingDigits(p \div 10)

\* C13 (range of the positions): in the fixed build getPositions(data) returns,
\* for every byte slice (the empty one and single bytes too), exactly two
\* positions between 0 and 99, the first two decimal digits of the sum of b>>1
\* and of the sum of b>>2 over the bytes.
PositionsInRange ==
    last.op = "getPositions" =>
        /\ last.result = "returned"
        /\ Len(last.pos) = 2
        /\ \A i \in 1..Len(last.pos) : last.pos[i] >= 0 /\ last.pos[i] <= 99
        /\ last.pos = <<LeadingDigits(ShiftSum(last.arg, 1)),
                        LeadingDigits(ShiftSum(last.arg, 2))>>

\* C14 (capacity matches the hash range): every position getPositions of the
\* fixed build returns is an index of bits [99]bool, that is 0..98.
PositionsAreIndices ==
    (last.op = "getPositions" /\ last.result = "returned") =>
        \A i \in 1..Len(last.pos) : last.pos[i] >= 0 /\ last.pos[i] < BitsLen

\* every string in a.array passes a.filter.Test
StepSuperset ==
    \A i \in 1..Len(arr.array) : ReturnsTrue(variant, arr.filter, arr.array[i])

RECURSIVE SetAll(_, _, _)
SetAll(v, f, ds) ==
    IF ds = << >> THEN [panic |-> FALSE, f |-> f]
    ELSE LET r == Set(v, f, Head(ds))
         IN  IF r.panic THEN [panic |-> TRUE, f |-> r.f]
             ELSE SetAll(v, r.f, Tail(ds))

\* the inputs ds in the opposite order
RECURSIVE Reverse(_)
Reverse(ds) == IF ds = << >> THEN << >> ELSE Append(Reverse(Tail(ds)), Head(ds))

\* the positions getPositions gives for the inputs ds
PositionsOf(v, f, ds) ==
    UNION {Range(getPositions(v, f, d).pos) : d \in Range(ds)}

\* C16 (the bits depend only on the set of recorded inputs): after any
\* sequence of BloomFilter.Set calls the set bits are exactly the union of
\* getPositions(d) over the recorded inputs d; a second Set(d) leaves the bits
\* as they are, and the same calls in the opposite order leave the same bits.
BitsAreUnionOfRecorded ==
    /\ bf.bits = PositionsOf(variant, bf, recorded)
    /\ (last.op = "BloomFilter.Set" => Set(variant, bf, last.arg).f = bf)
    /\ SetAll(variant, NewBloomFilter, Reverse(recorded)).f = bf

\* ------------------------------------------------------- supporting facts
\* What the code does guarantee where C1, C2, C3, C8 and C9 meet the panics
\* of the fixed build: the same statements, for the calls that return.

\* While no call has panicked, every d that bf.Set was called with makes
\* bf.Test(d) return true.
ReturnedSetsTestTrue ==
    status = "ok" => \A i \in 1..Len(recorded) : ReturnsTrue(variant, bf, recorded[i])

\* An arr.Test(s) call that returns, returns whether s is in a.array.
ReturnedTestExact ==
    (last.op = "ArrayWithBloomFilter.Test" /\ last.result # "panic") =>
        last.result = (IF last.arg \in Range(arr.array) THEN "true" ELSE "false")

\* Every element of a.array passes the filter's Test.
ArrayPassesFilter ==
    \A i \in 1..Len(arr.array) : ReturnsTrue(variant, arr.filter, arr.array[i])

\* The array is the sequence of the values whose Set call returned.
ArrayIsReturnedHistory ==
    /\ status = "ok" => arr.array = inserted
    /\ status = "panic" =>
           \/ arr.array = inserted
           \/ /\ last.op = "ArrayWithBloomFilter.Set"
              /\ Append(arr.array, last.arg) = inserted

\* A Test call on a fresh filter or collection never returns true.
FreshNeverTrue ==
    /\ (last.op = "BloomFilter.Test" /\ recorded = << >>) => last.result # "true"
    /\ (last.op = "ArrayWithBloomFilter.Test" /\ inserted = << >>)
           => last.result # "true"

\* The filter said "maybe" for a value that is not in the array, and the scan
\* answered false (a false positive resolved).
FalsePositiveResolved ==
    /\ last.op = "ArrayWithBloomFilter.Test"
    /\ last.hasElement = "true"
    /\ last.result = "false"
    /\ last.reads = Len(arr.array)
    /\ Len(arr.array) > 0

\* (C11) While neither build has panicked, the two collections gave the same
\* outcome for the last call and hold the same array.
BuildsAgreeWhileReturning ==
    status = "ok" => (pair.outS = pair.outF /\ pair.sparse.array = pair.fixed.array)

\* (C11) The two builds agreed on a query although only the fixed build's
\* filter gave a false positive.
BuildsAgreeOnFalsePositive ==
    /\ status = "ok"
    /\ pair.op = "ArrayWithBloomFilter.Test"
    /\ pair.outS = "false"
    /\ pair.outF = "false"
    /\ ReturnsTrue("fixed", pair.fixed.filter, pair.arg)
    /\ ~ReturnsTrue("sparse", pair.sparse.filter, pair.arg)

\* (C12) A BloomFilter.Test call that returned gave true exactly when both
\* positions of its argument are set.
ReturnedTestIffAllSet ==
    (last.op = "BloomFilter.Test" /\ last.result # "panic") =>
        (last.result = "true" <=> AllPositionsSet(variant, bf, last.arg))

\* (C12) A BloomFilter.Test call returned false with exactly one of the two
\* positions set.
TestFalseOnOneBit ==
    /\ last.op = "BloomFilter.Test"
    /\ last.result = "false"
    /\ Len(last.pos) = 2
    /\ last.pos[1] \in bf.bits
    /\ last.pos[2] \notin bf.bits

\* (C13) A getPositions call of the fixed build that returned gave two
\* positions between 10 and 99, the first two digits of the two sums.
ReturnedPositionsInRange ==
    (last.op = "getPositions" /\ last.result = "returned") =>
        /\ Len(last.pos) = 2
        /\ \A i \in 1..Len(last.pos) : last.pos[i] >= 10 /\ last.pos[i] <= 99
        /\ last.pos = <<LeadingDigits(ShiftSum(last.arg, 1)),
                        LeadingDigits(ShiftSum(last.arg, 2))>>

\* (C13) getPositions returned for a slice whose two sums have three digits,
\* cut to their first two.
PositionsOfLongSum ==
    /\ last.op = "getPositions"
    /\ last.result = "returned"
    /\ ShiftSum(last.arg, 1) >= 100
    /\ ShiftSum(last.arg, 2) >= 100

\* (C14) A Set or Test call of the fixed build panicked at f.bits[pos] with a
\* position beyond the array.
IndexOutOfRange ==
    /\ variant = "fixed"
    /\ last.op \in {"BloomFilter.Set", "BloomFilter.Test"}
    /\ last.result = "panic"
    /\ \E i \in 1..Len(last.pos) : last.pos[i] >= BitsLen

\* (C15) With each bit set in one step, every string in a.array passes
\* a.filter.Test in every intermediate state of the interleaved processes.
ArrayPassesFilterAtEveryStep == StepSuperset

\* (C15) A Test(s) that started after a Set(s) returned passed the filter, and
\* returned false only with s overwritten in a.array.
TestAfterSetPassesFilter ==
    (last.op = "ArrayWithBloomFilter.Test" /\ "after" \in DOMAIN last /\ last.after) =>
        /\ last.hasElement = "true"
        /\ (last.result = "true" \/ last.arg \notin Range(arr.array))

\* (C15) Two Set calls returned and a.array holds only one of their values:
\* the second store of an appended slice overwrote the first.
LostAppend ==
    /\ status = "ok"
    /\ Len(inserted) = 2
    /\ Len(arr.array) = 1

\* (C15) A Test returned true while a Set of another process stood between
\* its two bits.
TestDuringSet ==
    /\ last.op = "ArrayWithBloomFilter.Test"
    /\ last.result = "true"
    /\ \E p \in Procs : procs[p].pc = "bit2"

\* (C16) While no Set call has panicked, the set bits are the union of the
\* positions of the recorded inputs, a second Set of the last input changes
\* nothing, and the recorded inputs in the opposite order give the same bits.
ReturnedBitsAreUnion ==
    status = "ok" =>
        /\ bf.bits = PositionsOf(variant, bf, recorded)
        /\ (last.op = "BloomFilter.Set" => Set(variant, bf, last.arg).f = bf)
        /\ SetAll(variant, NewBloomFilter, Reverse(recorded)).f = bf

\* (C16) Three Set calls returned, two of them with the same input and one
\* sharing a position with it: three bits are set.
SetsOverlap ==
    /\ status = "ok"
    /\ Len(recorded) = 3
    /\ Cardinality(Range(recorded)) = 2
    /\ Cardinality(bf.bits) = 3

====
